---------------------------- MODULE Spec2Model ----------------------------
(***************************************************************************)
(* A model of the LoRa driver of tallyWAN_send.py (class LoRa) together    *)
(* with the radio chip it talks to over SPI.                               *)
(*                                                                         *)
(* The driver is modelled statement by statement: every source line that   *)
(* performs a register transaction, a call, a branch or an assignment to   *)
(* the object is one action, named <function>_<line>.  Two execution       *)
(* contexts exist: "main" (the caller of the driver's methods) and "irq"   *)
(* (the receive handler _irq_recv attached with rx.irq).  Each context has *)
(* a call stack of frames; the handler, once dispatched, runs to           *)
(* completion before main continues.                                       *)
(*                                                                         *)
(* _transfer is modelled by its four statements (chip select low, address  *)
(* byte, data byte exchange, chip select high) acting on a byte-level      *)
(* model of the chip's SPI decoder.  The variable grain fixes where the    *)
(* handler may be dispatched: between register transactions ("xfer") or    *)
(* between any two statements of _transfer ("stmt").                       *)
(***************************************************************************)
EXTENDS Integers, Sequences, FiniteSets, TLC

(***************************************************************************)
(* Program constants (tallyWAN_send.py lines 8-51), in decimal.            *)
(***************************************************************************)
TX_BASE_ADDR == 0
RX_BASE_ADDR == 0
PA_BOOST == 128
PA_OUTPUT_RFO_PIN == 0
PA_OUTPUT_PA_BOOST_PIN == 1
REG_FIFO == 0
REG_OP_MODE == 1
REG_FRF_MSB == 6
REG_FRF_MID == 7
REG_FRF_LSB == 8
REG_PA_CONFIG == 9
REG_LNA == 12
REG_FIFO_ADDR_PTR == 13
REG_FIFO_TX_BASE_ADDR == 14
REG_FIFO_RX_BASE_ADDR == 15
REG_FIFO_RX_CURRENT_ADDR == 16
REG_IRQ_FLAGS == 18
REG_RX_NB_BYTES == 19
REG_PKT_RSSI_VALUE == 26
REG_PKT_SNR_VALUE == 27
REG_MODEM_CONFIG_1 == 29
REG_MODEM_CONFIG_2 == 30
REG_PREAMBLE_MSB == 32
REG_PREAMBLE_LSB == 33
REG_PAYLOAD_LENGTH == 34
REG_MODEM_CONFIG_3 == 38
REG_DETECTION_OPTIMIZE == 49
REG_DETECTION_THRESHOLD == 55
REG_SYNC_WORD == 57
REG_DIO_MAPPING_1 == 64
REG_VERSION == 66
MODE_LORA == 128
MODE_SLEEP == 0
MODE_STDBY == 1
MODE_TX == 3
MODE_RX_CONTINUOUS == 5
IRQ_TX_DONE_MASK == 8
IRQ_PAYLOAD_CRC_ERROR_MASK == 32
MAX_PKT_LENGTH == 255
\* The chip's RxDone flag (bit 6 of the IRQ-flags register); the driver
\* reads it as part of the flags byte and never names it.
IRQ_RX_DONE_MASK == 64
\* The identity value __init__ expects in REG_VERSION (line 59).
CHIP_VERSION == 18

(***************************************************************************)
(* Bounds of the model.                                                    *)
(***************************************************************************)
\* driver method calls made by the client after the constructor call
MaxCalls == 2
\* packets the chip receives
MaxRx == 1

(***************************************************************************)
(* Byte arithmetic: Python's &, | on non-negative integers.                *)
(***************************************************************************)
RECURSIVE And(_, _)
And(a, b) ==
    IF a = 0 \/ b = 0 THEN 0
    ELSE (a % 2) * (b % 2) + 2 * And(a \div 2, b \div 2)

RECURSIVE Or(_, _)
Or(a, b) ==
    IF a = 0 THEN b
    ELSE IF b = 0 THEN a
    ELSE (IF a % 2 = 1 \/ b % 2 = 1 THEN 1 ELSE 0) + 2 * Or(a \div 2, b \div 2)

Min(a, b) == IF a < b THEN a ELSE b
Max(a, b) == IF a > b THEN a ELSE b
Byte == 0 .. 255

VARIABLES
    chip,       \* the radio: [regs, fifo, cs, sel]
    self,       \* the LoRa object's attributes
    kw,         \* keyword arguments of the constructor call
    stk,        \* call stack of each context, innermost frame first
    ph,         \* statements of _transfer executed in the current transfer
    resp,       \* resp of each context's last write_readinto
    ret,        \* value returned by the last finished call of each context
    irqAttached,\* rx.irq has a handler
    irqPending, \* a rising edge was seen and the handler is scheduled
    grain,      \* "xfer" or "stmt": where the handler may be dispatched
    result,     \* outcome of the client's last method call
    wlog,       \* _write calls issued since the client's last call began
    cbLog,      \* callback invocations of the current handler run
    snap,       \* chip and object as they were when the handler was dispatched
    calls,      \* method calls made so far
    rxCount,    \* packets received so far
    listening,  \* recv() returned and no mode-changing method was called since
    call,       \* the client's last method call: its name and arguments
    pre,        \* the chip as it was when that call began
    budget,     \* method calls the client may make
    hist        \* arguments of the calls made so far: every on_recv
                \* argument in order, and the last argument of each setter
                \* of the two modem-config registers; and the cached implicit
                \* flag as the client's current call began

vars == <<chip, self, kw, stk, ph, resp, ret, irqAttached, irqPending, grain,
          result, wlog, cbLog, snap, calls, rxCount, listening, call, pre,
          budget, hist>>

(***************************************************************************)
(* The chip.  regs holds the registers the driver names; fifo holds the    *)
(* cells of the 256-byte buffer written so far (others read 0); cs is the  *)
(* level of the chip-select line; sel is the address byte latched in the   *)
(* current bus access, -1 when the next byte is an address.                *)
(***************************************************************************)
Regs == {REG_OP_MODE, REG_FRF_MSB, REG_FRF_MID, REG_FRF_LSB, REG_PA_CONFIG,
         REG_LNA, REG_FIFO_ADDR_PTR, REG_FIFO_TX_BASE_ADDR,
         REG_FIFO_RX_BASE_ADDR, REG_FIFO_RX_CURRENT_ADDR, REG_IRQ_FLAGS,
         REG_RX_NB_BYTES, REG_PKT_RSSI_VALUE, REG_PKT_SNR_VALUE,
         REG_MODEM_CONFIG_1, REG_MODEM_CONFIG_2, REG_PREAMBLE_MSB,
         REG_PREAMBLE_LSB, REG_PAYLOAD_LENGTH, REG_MODEM_CONFIG_3,
         REG_DETECTION_OPTIMIZE, REG_DETECTION_THRESHOLD, REG_SYNC_WORD,
         REG_DIO_MAPPING_1, REG_VERSION}

\* registers the chip alone sets
ReadOnlyRegs == {REG_FIFO_RX_CURRENT_ADDR, REG_RX_NB_BYTES,
                 REG_PKT_RSSI_VALUE, REG_PKT_SNR_VALUE, REG_VERSION}

FifoAt(ch, a) == IF a \in DOMAIN ch.fifo THEN ch.fifo[a] ELSE 0

FifoPut(f, a, v) == [c \in (DOMAIN f) \cup {a} |-> IF c = a THEN v ELSE f[c]]

\* the byte the chip shifts out for a data access to register a
RegRead(ch, a) ==
    IF a = REG_FIFO THEN FifoAt(ch, ch.regs[REG_FIFO_ADDR_PTR])
    ELSE IF a \in Regs THEN ch.regs[a]
    ELSE 0

\* the chip after a write of v to register a: the buffer cell under the
\* pointer for REG_FIFO, write-one-to-clear for the IRQ flags
RegWrite(ch, a, v) ==
    IF a = REG_FIFO
      THEN [ch EXCEPT !.fifo = FifoPut(ch.fifo, ch.regs[REG_FIFO_ADDR_PTR], v)]
    ELSE IF a = REG_IRQ_FLAGS
      THEN [ch EXCEPT !.regs[a] = ch.regs[a] - And(ch.regs[a], v)]
    ELSE IF a \in Regs \ ReadOnlyRegs
      THEN [ch EXCEPT !.regs[a] = v]
    ELSE ch

\* every access to REG_FIFO moves the buffer pointer on by one
FifoAdvance(ch, a) ==
    IF a = REG_FIFO
      THEN [ch EXCEPT !.regs[REG_FIFO_ADDR_PTR] =
                          (ch.regs[REG_FIFO_ADDR_PTR] + 1) % 256]
      ELSE ch

\* cs.value(level): a new access starts with an address byte
ChipSelect(ch, level) ==
    [ch EXCEPT !.cs = level,
               !.sel = IF level = 1 \/ ch.cs = 1 THEN -1 ELSE ch.sel]

\* one byte b clocked on the bus: [chip |-> the chip after, out |-> the byte
\* read back].  With chip select high the chip ignores the byte and the
\* pulled-up MISO line (line 280) reads 255.  The first byte of an access is
\* the address (bit 7 set: write); each further byte is data for the latched
\* address, which then moves on by one except for REG_FIFO.
ChipClock(ch, b) ==
    IF ch.cs = 1 THEN [chip |-> ch, out |-> 255]
    ELSE IF ch.sel = -1 THEN [chip |-> [ch EXCEPT !.sel = b], out |-> 0]
    ELSE LET a  == ch.sel % 128
             w  == ch.sel >= 128
             c1 == IF w THEN RegWrite(ch, a, b) ELSE ch
             c2 == FifoAdvance(c1, a)
         IN  [chip |-> [c2 EXCEPT !.sel = IF a = REG_FIFO THEN ch.sel
                                          ELSE (ch.sel - a) + ((a + 1) % 128)],
              out |-> RegRead(ch, a)]

\* the chip as it leaves reset: the register values the data sheet gives,
\* with the identity register reading v
ChipReset(v) ==
    [regs |-> [a \in Regs |->
                 CASE a = REG_OP_MODE -> 9
                   [] a = REG_FRF_MSB -> 108
                   [] a = REG_FRF_MID -> 128
                   [] a = REG_PA_CONFIG -> 79
                   [] a = REG_LNA -> 32
                   [] a = REG_FIFO_TX_BASE_ADDR -> 128
                   [] a = REG_MODEM_CONFIG_1 -> 114
                   [] a = REG_MODEM_CONFIG_2 -> 112
                   [] a = REG_PREAMBLE_LSB -> 8
                   [] a = REG_PAYLOAD_LENGTH -> 1
                   [] a = REG_DETECTION_OPTIMIZE -> 195
                   [] a = REG_DETECTION_THRESHOLD -> 10
                   [] a = REG_SYNC_WORD -> 18
                   [] a = REG_VERSION -> v
                   [] OTHER -> 0],
     fifo |-> <<>>,
     cs   |-> 1,
     sel  |-> -1]

(***************************************************************************)
(* _transfer (lines 226-232), statement by statement, and as a whole.      *)
(***************************************************************************)
\* line 228: self.cs.value(0)
transfer_228(ch) == ChipSelect(ch, 0)
\* line 229: self.spi.write(bytes([addr]))
transfer_229(ch, addr) == ChipClock(ch, addr).chip
\* line 230: self.spi.write_readinto(bytes([x]), resp)
transfer_230(ch, x) == ChipClock(ch, x)
\* line 231: self.cs.value(1)
transfer_231(ch) == ChipSelect(ch, 1)

\* the whole of _transfer(addr, x) run without interruption:
\* [chip |-> the chip after, out |-> resp]
transfer(ch, addr, x) ==
    LET c1 == transfer_228(ch)
        c2 == transfer_229(c1, addr)
        c3 == transfer_230(c2, x)
    IN  [chip |-> transfer_231(c3.chip), out |-> c3.out]

\* line 235: the address byte _read sends
ReadAddr(addr) == And(addr, 127)
\* line 239: the address byte _write sends
WriteAddr(addr) == Or(addr, 128)

(***************************************************************************)
(* Call stacks.  A frame holds the label of the statement to run next and  *)
(* the function's arguments and locals: x, y (arguments), b (a byte        *)
(* sequence), n, i (locals).                                               *)
(***************************************************************************)
Ctx == {"main", "irq"}

Frame(pc, x, y, b) == [pc |-> pc, x |-> x, y |-> y, b |-> b, n |-> 0, i |-> 0]

Cur(c) == Head(stk[c])

\* context c is at statement l and may run: main is suspended while the
\* handler runs
At(c, l) ==
    /\ stk[c] # <<>>
    /\ Head(stk[c]).pc = l
    /\ (c = "main" => stk["irq"] = <<>>)

\* the transfer of context c completes in this step
Done(c) == grain = "xfer" \/ ph[c] = 3

\* one step of context c's _transfer(addr, x): the whole transfer when
\* grain = "xfer", else its next statement.  A write is logged when its data
\* byte is exchanged.
Xfer(c, addr, x) ==
    /\ IF grain = "xfer"
         THEN LET t == transfer(chip, addr, x)
              IN  /\ chip' = t.chip
                  /\ resp' = [resp EXCEPT ![c] = t.out]
                  /\ ph' = ph
         ELSE /\ ph' = [ph EXCEPT ![c] = (@ + 1) % 4]
              /\ CASE ph[c] = 0 -> /\ chip' = transfer_228(chip)
                                   /\ resp' = resp
                   [] ph[c] = 1 -> /\ chip' = transfer_229(chip, addr)
                                   /\ resp' = resp
                   [] ph[c] = 2 -> /\ chip' = transfer_230(chip, x).chip
                                   /\ resp' = [resp EXCEPT ![c] =
                                                   transfer_230(chip, x).out]
                   [] ph[c] = 3 -> /\ chip' = transfer_231(chip)
                                   /\ resp' = resp
    /\ wlog' = IF (grain = "xfer" \/ ph[c] = 2) /\ addr >= 128
                 THEN Append(wlog, <<c, addr - 128, x>>)
                 ELSE wlog

\* control flow of context c after a statement
Goto(c, l) ==
    /\ stk' = [stk EXCEPT ![c] = <<[Head(@) EXCEPT !.pc = l]>> \o Tail(@)]
    /\ UNCHANGED <<ret, result>>

SetFrame(c, f) ==
    /\ stk' = [stk EXCEPT ![c] = <<f>> \o Tail(@)]
    /\ UNCHANGED <<ret, result>>

\* call: the caller resumes at l when the callee's frame f is popped
Call(c, l, f) ==
    /\ stk' = [stk EXCEPT ![c] = <<f, [Head(@) EXCEPT !.pc = l]>> \o Tail(@)]
    /\ UNCHANGED <<ret, result>>

\* return v; a return of main's outermost frame ends the client's call
Return(c, v) ==
    /\ stk' = [stk EXCEPT ![c] = Tail(@)]
    /\ ret' = [ret EXCEPT ![c] = v]
    /\ result' = IF c = "main" /\ Len(stk[c]) = 1 THEN "ok" ELSE result

\* return of a byte string v: it is handed to the caller's frame as b
ReturnBytes(c, v) ==
    /\ stk' = [stk EXCEPT ![c] =
                  <<[Head(Tail(@)) EXCEPT !.b = v]>> \o Tail(Tail(@))]
    /\ UNCHANGED <<ret, result>>

\* raise: no handler exists in the driver, the exception reaches the client
Raise(c, exc) ==
    /\ stk' = [stk EXCEPT ![c] = <<>>]
    /\ result' = exc
    /\ UNCHANGED ret

Stay == UNCHANGED <<stk, ret, result>>

\* self._write(addr, x) as the whole statement l of context c, then go to l2
WriteThen(c, l, addr, x, l2) ==
    /\ At(c, l)
    /\ Xfer(c, WriteAddr(addr), x)
    /\ IF Done(c) THEN Goto(c, l2) ELSE Stay

\* self._write(addr, x) as the last statement of its function
WriteReturn(c, l, addr, x) ==
    /\ At(c, l)
    /\ Xfer(c, WriteAddr(addr), x)
    /\ IF Done(c) THEN Return(c, 0) ELSE Stay

\* a statement whose transfer is self._read(addr); F(r) is the frame after it
ReadThen(c, l, addr, F(_)) ==
    /\ At(c, l)
    /\ Xfer(c, ReadAddr(addr), 0)
    /\ IF Done(c) THEN SetFrame(c, F(resp'[c])) ELSE Stay

objVars == <<self, kw, irqAttached>>
envVars == <<irqPending, rxCount>>
ghostVars == <<cbLog, snap, calls, listening, grain, call, pre, budget, hist>>
busVars == <<chip, ph, resp, wlog>>

(***************************************************************************)
(* Mode methods.                                                           *)
(***************************************************************************)
\* line 125
standby_125 ==
    /\ WriteReturn("main", "standby_125", REG_OP_MODE, Or(MODE_LORA, MODE_STDBY))
    /\ UNCHANGED <<objVars, envVars, ghostVars>>

\* line 128
sleep_128 ==
    /\ WriteReturn("main", "sleep_128", REG_OP_MODE, Or(MODE_LORA, MODE_SLEEP))
    /\ UNCHANGED <<objVars, envVars, ghostVars>>

\* line 206; recv is only ever the client's own call
recv_206 ==
    /\ WriteReturn("main", "recv_206", REG_OP_MODE,
                   Or(MODE_LORA, MODE_RX_CONTINUOUS))
    /\ listening' = Done("main")
    /\ UNCHANGED <<objVars, envVars, cbLog, snap, calls, grain, call, pre, budget, hist>>

restVars == <<objVars, envVars, ghostVars>>

\* a statement whose transfer is self._read(addr) and which returns V(r)
ReadReturn(c, l, addr, V(_)) ==
    /\ At(c, l)
    /\ Xfer(c, ReadAddr(addr), 0)
    /\ IF Done(c) THEN Return(c, V(resp'[c])) ELSE Stay

\* a statement l of context c that calls the function starting at frame f
CallLine(c, l, l2, f) ==
    /\ At(c, l)
    /\ Call(c, l2, f)
    /\ UNCHANGED <<busVars, restVars>>

(***************************************************************************)
(* Packet transmitter (lines 81-108).                                      *)
(***************************************************************************)
\* begin_packet without its call of standby
begin_packet_82_skip ==
    /\ At("main", "begin_packet_82")
    /\ Goto("main", "begin_packet_83")
    /\ UNCHANGED <<busVars, restVars>>

\* line 82: self.standby()
begin_packet_82 ==
    /\ CallLine("main", "begin_packet_82", "begin_packet_83",
             Frame("standby_125", 0, 0, <<>>))

\* line 83
begin_packet_83 ==
    /\ WriteThen("main", "begin_packet_83", REG_FIFO_ADDR_PTR, TX_BASE_ADDR,
                 "begin_packet_84")
    /\ UNCHANGED restVars

\* line 84
begin_packet_84 ==
    /\ WriteReturn("main", "begin_packet_84", REG_PAYLOAD_LENGTH, 0)
    /\ UNCHANGED restVars

\* line 87
end_packet_87 ==
    /\ WriteThen("main", "end_packet_87", REG_OP_MODE, Or(MODE_LORA, MODE_TX),
                 "end_packet_88")
    /\ UNCHANGED restVars

\* the loop test on any flag
PollDone_any(r) == r # 0

\* line 88: the loop leaves when the flags read have the TxDone bit
PollDone(r) == And(r, IRQ_TX_DONE_MASK) # 0

\* lines 88-89: one iteration of the poll loop; n keeps the flags read
end_packet_88 ==
    /\ ReadThen("main", "end_packet_88", REG_IRQ_FLAGS,
                LAMBDA r : [Cur("main") EXCEPT
                              !.n = r,
                              !.pc = IF PollDone(r) THEN "end_packet_90"
                                                    ELSE "end_packet_88"])
    /\ UNCHANGED restVars

\* lines 90-91
end_packet_90 ==
    /\ WriteReturn("main", "end_packet_90", REG_IRQ_FLAGS, IRQ_TX_DONE_MASK)
    /\ UNCHANGED restVars

\* line 94: n = self._read(REG_PAYLOAD_LENGTH)
write_packet_94 ==
    /\ ReadThen("main", "write_packet_94", REG_PAYLOAD_LENGTH,
                LAMBDA r : [Cur("main") EXCEPT !.n = r,
                                               !.pc = "write_packet_97"])
    /\ UNCHANGED restVars

\* the size check with >= for >
TooLarge_off(n, m) == n + m >= MAX_PKT_LENGTH - TX_BASE_ADDR

\* lines 95-97: the payload of m bytes does not fit after the n already there
TooLarge(n, m) == n + m > MAX_PKT_LENGTH - TX_BASE_ADDR

\* lines 95-99: raise, or enter the loop
write_packet_97 ==
    /\ At("main", "write_packet_97")
    /\ LET f == Cur("main")
       IN  IF TooLarge(f.n, Len(f.b))
             THEN Raise("main", "ValueError")
             ELSE Goto("main", IF Len(f.b) > 0 THEN "write_packet_100"
                                               ELSE "write_packet_101")
    /\ UNCHANGED <<busVars, restVars>>

\* lines 99-100: one iteration of the loop, self._write(REG_FIFO, b[i])
write_packet_100 ==
    /\ At("main", "write_packet_100")
    /\ LET f == Cur("main")
       IN  /\ Xfer("main", WriteAddr(REG_FIFO), f.b[f.i + 1])
           /\ IF Done("main")
                THEN SetFrame("main",
                        [f EXCEPT !.i = f.i + 1,
                                  !.pc = IF f.i + 1 < Len(f.b)
                                           THEN "write_packet_100"
                                           ELSE "write_packet_101"])
                ELSE Stay
    /\ UNCHANGED restVars

\* line 101
write_packet_101 ==
    /\ WriteReturn("main", "write_packet_101", REG_PAYLOAD_LENGTH,
                   Cur("main").n + Len(Cur("main").b))
    /\ UNCHANGED restVars

\* lines 104-106: the payload is held as the bytes x.encode() gives
send_106 ==
    /\ CallLine("main", "send_106", "send_107",
             Frame("begin_packet_82", 0, 0, <<>>))

\* line 107
send_107 ==
    /\ CallLine("main", "send_107", "send_108",
             Frame("write_packet_94", 0, 0, Cur("main").b))

\* line 108
send_108 ==
    /\ CallLine("main", "send_108", "send_end",
             Frame("end_packet_87", 0, 0, <<>>))

\* send returns after end_packet
send_end ==
    /\ At("main", "send_end")
    /\ Return("main", 0)
    /\ UNCHANGED <<busVars, restVars>>

(***************************************************************************)
(* Link quality (lines 115-122).                                           *)
(***************************************************************************)
\* lines 117-119; self._frequency is held in Hz
RssiOf(r, frequency) == IF frequency >= 779000000 THEN r - 157 ELSE r - 164

\* lines 116-119
get_rssi_116 ==
    /\ ReadReturn("main", "get_rssi_116", REG_PKT_RSSI_VALUE,
                  LAMBDA r : RssiOf(r, self._frequency))
    /\ UNCHANGED restVars

\* line 122: four times the float returned, r * 0.25 (exact in binary)
SnrQuarters(r) == r

\* line 122
get_snr_122 ==
    /\ ReadReturn("main", "get_snr_122", REG_PKT_SNR_VALUE,
                  LAMBDA r : SnrQuarters(r))
    /\ UNCHANGED restVars

(***************************************************************************)
(* Configuration (lines 130-194).  An assignment to an attribute of the    *)
(* object is a step of its own.                                            *)
(***************************************************************************)
Clamp(v, lo, hi) == Min(Max(v, lo), hi)

\* lines 131, 134: the branch on outputPin (argument y)
set_tx_power_131 ==
    /\ At("main", "set_tx_power_131")
    /\ Goto("main", IF Cur("main").y = PA_OUTPUT_RFO_PIN
                      THEN "set_tx_power_133" ELSE "set_tx_power_136")
    /\ UNCHANGED <<busVars, restVars>>

\* lines 132-133
set_tx_power_133 ==
    /\ WriteReturn("main", "set_tx_power_133", REG_PA_CONFIG,
                   Or(112, Clamp(Cur("main").x, 0, 14)))
    /\ UNCHANGED restVars

\* lines 135-136
set_tx_power_136 ==
    /\ WriteReturn("main", "set_tx_power_136", REG_PA_CONFIG,
                   Or(PA_BOOST, Clamp(Cur("main").x, 2, 17) - 2))
    /\ UNCHANGED restVars

\* lines 140-141: round(hz / 61.03515625) for a frequency of hz Hz.  The
\* quotient hz * 256 / 15625 is never half-way between two integers, so
\* Python's round is the nearest integer; it is computed from the quotient
\* and remainder of hz by 15625 to stay within 32-bit arithmetic.
FrfOf(hz) ==
    256 * (hz \div 15625) + ((512 * (hz % 15625) + 15625) \div 31250)

\* lines 139-141; the frequency argument (MHz, a float) is held in Hz
set_frequency_139 ==
    /\ At("main", "set_frequency_139")
    /\ self' = [self EXCEPT !._frequency = Cur("main").x]
    /\ SetFrame("main", [Cur("main") EXCEPT !.n = FrfOf(Cur("main").x),
                                            !.pc = "set_frequency_142"])
    /\ UNCHANGED <<busVars, kw, irqAttached, envVars, ghostVars>>

\* line 142
set_frequency_142 ==
    /\ WriteThen("main", "set_frequency_142", REG_FRF_MSB,
                 And(Cur("main").n \div 65536, 255), "set_frequency_143")
    /\ UNCHANGED restVars

\* line 143
set_frequency_143 ==
    /\ WriteThen("main", "set_frequency_143", REG_FRF_MID,
                 And(Cur("main").n \div 256, 255), "set_frequency_144")
    /\ UNCHANGED restVars

\* line 144
set_frequency_144 ==
    /\ WriteReturn("main", "set_frequency_144", REG_FRF_LSB,
                   And(Cur("main").n, 255))
    /\ UNCHANGED restVars

\* an exception that leaves __init__ leaves no object behind
Aborted(o) ==
    IF o.constructed = "init" THEN [o EXCEPT !.constructed = "failed"] ELSE o

\* the range test with 13 let through
SfInvalid_wide(sf) == sf < 6 \/ sf > 13

\* line 147
SfInvalid(sf) == sf < 6 \/ sf > 12

\* lines 147-148
set_spreading_factor_147 ==
    /\ At("main", "set_spreading_factor_147")
    /\ IF SfInvalid(Cur("main").x)
         THEN /\ Raise("main", "ValueError")
              /\ self' = Aborted(self)
         ELSE /\ Goto("main", "set_spreading_factor_149")
              /\ self' = self
    /\ UNCHANGED <<busVars, kw, irqAttached, envVars, ghostVars>>

\* line 149
set_spreading_factor_149 ==
    /\ WriteThen("main", "set_spreading_factor_149", REG_DETECTION_OPTIMIZE,
                 IF Cur("main").x = 6 THEN 197 ELSE 195,
                 "set_spreading_factor_150")
    /\ UNCHANGED restVars

\* line 150
set_spreading_factor_150 ==
    /\ WriteThen("main", "set_spreading_factor_150", REG_DETECTION_THRESHOLD,
                 IF Cur("main").x = 6 THEN 12 ELSE 10,
                 "set_spreading_factor_151")
    /\ UNCHANGED restVars

\* line 151
set_spreading_factor_151 ==
    /\ ReadThen("main", "set_spreading_factor_151", REG_MODEM_CONFIG_2,
                LAMBDA r : [Cur("main") EXCEPT
                              !.n = r, !.pc = "set_spreading_factor_152"])
    /\ UNCHANGED restVars

\* line 152
set_spreading_factor_152 ==
    /\ WriteReturn("main", "set_spreading_factor_152", REG_MODEM_CONFIG_2,
                   Or(And(Cur("main").n, 15), And(Cur("main").x * 16, 240)))
    /\ UNCHANGED restVars

\* line 156
bws == <<7800, 10400, 15600, 20800, 31250, 41700, 62500, 125000, 250000>>

\* a loop that compares with < and so skips an entry equal to the request
BwIndex_strict(bw) ==
    LET fit == {j \in 1 .. Len(bws) : bw < bws[j]}
    IN  IF fit = {} THEN 9
        ELSE (CHOOSE j \in fit : \A k \in fit : j <= k) - 1

\* lines 157-161: the first j with bw <= bws[j], counted from 0, else 9
BwIndex(bw) ==
    LET fit == {j \in 1 .. Len(bws) : bw <= bws[j]}
    IN  IF fit = {} THEN 9
        ELSE (CHOOSE j \in fit : \A k \in fit : j <= k) - 1

\* lines 155-161
set_bandwidth_155 ==
    /\ At("main", "set_bandwidth_155")
    /\ self' = [self EXCEPT !._bandwidth = Cur("main").x]
    /\ SetFrame("main", [Cur("main") EXCEPT !.i = BwIndex(Cur("main").x),
                                            !.pc = "set_bandwidth_162"])
    /\ UNCHANGED <<busVars, kw, irqAttached, envVars, ghostVars>>

\* line 162
set_bandwidth_162 ==
    /\ ReadThen("main", "set_bandwidth_162", REG_MODEM_CONFIG_1,
                LAMBDA r : [Cur("main") EXCEPT
                              !.n = And(r, 15), !.pc = "set_bandwidth_163"])
    /\ UNCHANGED restVars

\* line 163
set_bandwidth_163 ==
    /\ WriteReturn("main", "set_bandwidth_163", REG_MODEM_CONFIG_1,
                   Or(Cur("main").n, Cur("main").i * 16))
    /\ UNCHANGED restVars

\* lines 166-167
CodingRate(denom) == Clamp(denom, 5, 8) - 4

\* lines 166-168
set_coding_rate_168 ==
    /\ ReadThen("main", "set_coding_rate_168", REG_MODEM_CONFIG_1,
                LAMBDA r : [Cur("main") EXCEPT
                              !.n = r, !.pc = "set_coding_rate_169"])
    /\ UNCHANGED restVars

\* a write that keeps only the high nibble of modem-config-1
set_coding_rate_169_nibble ==
    /\ WriteReturn("main", "set_coding_rate_169", REG_MODEM_CONFIG_1,
                   Or(And(Cur("main").n, 240), CodingRate(Cur("main").x) * 2))
    /\ UNCHANGED restVars

\* line 169
set_coding_rate_169 ==
    /\ WriteReturn("main", "set_coding_rate_169", REG_MODEM_CONFIG_1,
                   Or(And(Cur("main").n, 241), CodingRate(Cur("main").x) * 2))
    /\ UNCHANGED restVars

\* line 172
set_preamble_length_172 ==
    /\ WriteThen("main", "set_preamble_length_172", REG_PREAMBLE_MSB,
                 And(Cur("main").x \div 256, 255), "set_preamble_length_173")
    /\ UNCHANGED restVars

\* line 173
set_preamble_length_173 ==
    /\ WriteReturn("main", "set_preamble_length_173", REG_PREAMBLE_LSB,
                   And(Cur("main").x, 255))
    /\ UNCHANGED restVars

\* line 176
set_crc_176 ==
    /\ ReadThen("main", "set_crc_176", REG_MODEM_CONFIG_2,
                LAMBDA r : [Cur("main") EXCEPT !.n = r, !.pc = "set_crc_181"])
    /\ UNCHANGED restVars

\* lines 177-181; crc (argument x) is 1 for True, 0 for False
set_crc_181 ==
    /\ WriteReturn("main", "set_crc_181", REG_MODEM_CONFIG_2,
                   IF Cur("main").x # 0 THEN Or(Cur("main").n, 4)
                                        ELSE And(Cur("main").n, 251))
    /\ UNCHANGED restVars

\* line 184
set_sync_word_184 ==
    /\ WriteReturn("main", "set_sync_word_184", REG_SYNC_WORD, Cur("main").x)
    /\ UNCHANGED restVars

\* set_implicit without the comparison with the cached flag
set_implicit_187_always ==
    /\ At("main", "set_implicit_187")
    /\ self' = [self EXCEPT !._implicit = Cur("main").x]
    /\ Goto("main", "set_implicit_189")
    /\ UNCHANGED <<busVars, kw, irqAttached, envVars, ghostVars>>

\* lines 187-188: nothing is done when the cached flag equals the argument
set_implicit_187 ==
    /\ At("main", "set_implicit_187")
    /\ IF self._implicit # Cur("main").x
         THEN /\ self' = [self EXCEPT !._implicit = Cur("main").x]
              /\ Goto("main", "set_implicit_189")
         ELSE /\ self' = self
              /\ Return("main", 0)
    /\ UNCHANGED <<busVars, kw, irqAttached, envVars, ghostVars>>

\* line 189
set_implicit_189 ==
    /\ ReadThen("main", "set_implicit_189", REG_MODEM_CONFIG_1,
                LAMBDA r : [Cur("main") EXCEPT
                              !.n = r, !.pc = "set_implicit_194"])
    /\ UNCHANGED restVars

\* lines 190-194
set_implicit_194 ==
    /\ WriteReturn("main", "set_implicit_194", REG_MODEM_CONFIG_1,
                   IF Cur("main").x # 0 THEN Or(Cur("main").n, 1)
                                        ELSE And(Cur("main").n, 254))
    /\ UNCHANGED restVars

(***************************************************************************)
(* Receive subscription (lines 196-203).  A callback is a number, 0 for    *)
(* None; self.rx is 1 when an interrupt pin was given, 0 for None.         *)
(***************************************************************************)
\* on_recv that keeps a callback already subscribed
on_recv_197_keep ==
    /\ At("main", "on_recv_197")
    /\ self' = [self EXCEPT !._on_recv =
                   IF @ > 0 /\ Cur("main").x # 0 THEN @ ELSE Cur("main").x]
    /\ IF self.rx # 0
         THEN Goto("main", IF Cur("main").x # 0 THEN "on_recv_200"
                                                ELSE "on_recv_203")
         ELSE Return("main", 0)
    /\ UNCHANGED <<busVars, kw, irqAttached, envVars, ghostVars>>

\* lines 197-199, 202
on_recv_197 ==
    /\ At("main", "on_recv_197")
    /\ self' = [self EXCEPT !._on_recv = Cur("main").x]
    /\ IF self.rx # 0
         THEN Goto("main", IF Cur("main").x # 0 THEN "on_recv_200"
                                                ELSE "on_recv_203")
         ELSE Return("main", 0)
    /\ UNCHANGED <<busVars, kw, irqAttached, envVars, ghostVars>>

\* line 200
on_recv_200 ==
    /\ WriteThen("main", "on_recv_200", REG_DIO_MAPPING_1, 0, "on_recv_201")
    /\ UNCHANGED restVars

\* line 201: self.rx.irq(handler=self._irq_recv, trigger=Pin.IRQ_RISING)
on_recv_201 ==
    /\ At("main", "on_recv_201")
    /\ irqAttached' = TRUE
    /\ Return("main", 0)
    /\ UNCHANGED <<busVars, self, kw, envVars, ghostVars>>

\* line 203: self.rx.irq(handler=None, trigger=0)
on_recv_203 ==
    /\ At("main", "on_recv_203")
    /\ irqAttached' = FALSE
    /\ Return("main", 0)
    /\ UNCHANGED <<busVars, self, kw, envVars, ghostVars>>

(***************************************************************************)
(* Receive handler (lines 110-113, 208-224), run in the "irq" context.     *)
(***************************************************************************)
\* line 209: f = self._get_irq_flags()
irq_recv_209 ==
    /\ CallLine("irq", "irq_recv_209", "irq_recv_210",
             Frame("get_irq_flags_111", 0, 0, <<>>))

\* line 111
get_irq_flags_111 ==
    /\ ReadThen("irq", "get_irq_flags_111", REG_IRQ_FLAGS,
                LAMBDA r : [Cur("irq") EXCEPT
                              !.n = r, !.pc = "get_irq_flags_112"])
    /\ UNCHANGED restVars

\* lines 112-113
get_irq_flags_112 ==
    /\ At("irq", "get_irq_flags_112")
    /\ Xfer("irq", WriteAddr(REG_IRQ_FLAGS), Cur("irq").n)
    /\ IF Done("irq") THEN Return("irq", Cur("irq").n) ELSE Stay
    /\ UNCHANGED restVars

\* the test of line 210 on the RxDone bit
CrcOk_rxdone(f) == And(f, IRQ_RX_DONE_MASK) = 0

\* line 210: the flags f show no payload CRC error
CrcOk(f) == And(f, IRQ_PAYLOAD_CRC_ERROR_MASK) = 0

\* lines 210-212: with a clean CRC and a callback, read the payload; n
\* keeps the flags f
irq_recv_210 ==
    /\ At("irq", "irq_recv_210")
    /\ IF CrcOk(ret["irq"]) /\ self._on_recv # 0
         THEN /\ stk' = [stk EXCEPT !["irq"] =
                   <<Frame("read_payload_215", 0, 0, <<>>),
                     [Head(@) EXCEPT !.n = ret["irq"],
                                     !.pc = "irq_recv_212"]>> \o Tail(@)]
              /\ UNCHANGED <<ret, result>>
         ELSE Return("irq", 0)
    /\ snap' = [snap EXCEPT !.f = ret["irq"]]
    /\ UNCHANGED <<busVars, objVars, envVars, cbLog, calls, listening, grain,
                   call, pre, budget, hist>>

\* line 215, the read: self._read(REG_FIFO_RX_CURRENT_ADDR)
read_payload_215 ==
    /\ ReadThen("irq", "read_payload_215", REG_FIFO_RX_CURRENT_ADDR,
                LAMBDA r : [Cur("irq") EXCEPT
                              !.n = r, !.pc = "read_payload_215w"])
    /\ UNCHANGED restVars

\* line 215, the write, and the branch of line 216
read_payload_215w ==
    /\ WriteThen("irq", "read_payload_215w", REG_FIFO_ADDR_PTR, Cur("irq").n,
                 IF self._implicit # 0 THEN "read_payload_217"
                                       ELSE "read_payload_219")
    /\ UNCHANGED restVars

\* lines 220-221 after the length n = r was read: an empty payload, and the
\* loop or the return
AfterLength(f, r) ==
    [f EXCEPT !.n = r, !.i = 0, !.b = <<>>,
              !.pc = IF r > 0 THEN "read_payload_222" ELSE "read_payload_224"]

\* line 217
read_payload_217 ==
    /\ ReadThen("irq", "read_payload_217", REG_PAYLOAD_LENGTH,
                LAMBDA r : AfterLength(Cur("irq"), r))
    /\ UNCHANGED restVars

\* line 219
read_payload_219 ==
    /\ ReadThen("irq", "read_payload_219", REG_RX_NB_BYTES,
                LAMBDA r : AfterLength(Cur("irq"), r))
    /\ UNCHANGED restVars

\* lines 221-222: one iteration, payload.append(self._read(REG_FIFO))
read_payload_222 ==
    /\ ReadThen("irq", "read_payload_222", REG_FIFO,
                LAMBDA r : [Cur("irq") EXCEPT
                              !.b = Append(@, r),
                              !.i = @ + 1,
                              !.pc = IF Cur("irq").i + 1 < Cur("irq").n
                                       THEN "read_payload_222"
                                       ELSE "read_payload_224"])
    /\ UNCHANGED restVars

\* _read_payload that puts the chip in standby as it returns
read_payload_224_standby ==
    /\ WriteReturn("irq", "read_payload_224", REG_OP_MODE,
                   Or(MODE_LORA, MODE_STDBY))
    /\ UNCHANGED restVars

\* lines 223-224
read_payload_224 ==
    /\ At("irq", "read_payload_224")
    /\ ReturnBytes("irq", Cur("irq").b)
    /\ UNCHANGED <<busVars, restVars>>

\* line 212: self._on_recv(payload) with the bytes _read_payload returned,
\* and the handler returns
irq_recv_212 ==
    /\ At("irq", "irq_recv_212")
    /\ cbLog' = Append(cbLog, [cb |-> self._on_recv, payload |-> Cur("irq").b])
    /\ Return("irq", 0)
    /\ UNCHANGED <<busVars, objVars, envVars, snap, calls, listening, grain,
                   call, pre, budget, hist>>

(***************************************************************************)
(* The constructor (lines 55-79).  self.constructed is "none" before the   *)
(* call, "init" while __init__ runs, "ready" once it has returned and      *)
(* "failed" when it raised.                                                *)
(***************************************************************************)
NoArgs == <<>>

\* the identity check that accepts any chip that answers
VersionOk_any(r) == r # 0

\* line 59: the identity check
VersionOk(r) == r = CHIP_VERSION

\* lines 59-60
init_59 ==
    /\ At("main", "init_59")
    /\ Xfer("main", ReadAddr(REG_VERSION), 0)
    /\ IF Done("main")
         THEN IF VersionOk(resp'["main"])
                THEN Goto("main", "init_61") /\ self' = self
                ELSE Raise("main", "Exception") /\ self' = Aborted(self)
         ELSE Stay /\ self' = self
    /\ UNCHANGED <<kw, irqAttached, envVars, ghostVars>>

\* __init__ without its call of sleep
init_61_skip ==
    /\ At("main", "init_61")
    /\ Goto("main", "init_62")
    /\ UNCHANGED <<busVars, restVars>>

\* line 61
init_61 ==
    /\ CallLine("main", "init_61", "init_62", Frame("sleep_128", 0, 0, NoArgs))

\* line 62
init_62 ==
    /\ CallLine("main", "init_62", "init_63",
             Frame("set_frequency_139", kw.frequency, 0, NoArgs))

\* line 63
init_63 ==
    /\ CallLine("main", "init_63", "init_64",
             Frame("set_bandwidth_155", kw.bandwidth, 0, NoArgs))

\* line 64
init_64 ==
    /\ CallLine("main", "init_64", "init_65",
             Frame("set_spreading_factor_147", kw.spreading_factor, 0, NoArgs))

\* line 65
init_65 ==
    /\ CallLine("main", "init_65", "init_66",
             Frame("set_coding_rate_168", kw.coding_rate, 0, NoArgs))

\* line 66
init_66 ==
    /\ CallLine("main", "init_66", "init_67",
             Frame("set_preamble_length_172", kw.preamble_length, 0, NoArgs))

\* line 67
init_67 ==
    /\ CallLine("main", "init_67", "init_69",
             Frame("set_crc_176", kw.crc, 0, NoArgs))

\* line 69, the read: self._read(REG_LNA)
init_69 ==
    /\ ReadThen("main", "init_69", REG_LNA,
                LAMBDA r : [Cur("main") EXCEPT !.n = r, !.pc = "init_69w"])
    /\ UNCHANGED restVars

\* line 69, the write
init_69w ==
    /\ WriteThen("main", "init_69w", REG_LNA, Or(Cur("main").n, 3), "init_71")
    /\ UNCHANGED restVars

\* line 71
init_71 ==
    /\ WriteThen("main", "init_71", REG_MODEM_CONFIG_3, 4, "init_72")
    /\ UNCHANGED restVars

\* line 72
init_72 ==
    /\ CallLine("main", "init_72", "init_73",
             Frame("set_tx_power_131", kw.tx_power, PA_OUTPUT_PA_BOOST_PIN,
                   NoArgs))

\* line 73
init_73 ==
    /\ At("main", "init_73")
    /\ self' = [self EXCEPT !._implicit = kw.implicit]
    /\ Goto("main", "init_74")
    /\ UNCHANGED <<busVars, kw, irqAttached, envVars, ghostVars>>

\* line 74
init_74 ==
    /\ CallLine("main", "init_74", "init_75",
             Frame("set_implicit_187", self._implicit, 0, NoArgs))

\* line 75
init_75 ==
    /\ CallLine("main", "init_75", "init_76",
             Frame("set_sync_word_184", kw.sync_word, 0, NoArgs))

\* line 76
init_76 ==
    /\ At("main", "init_76")
    /\ self' = [self EXCEPT !._on_recv = kw.on_recv]
    /\ Goto("main", "init_77")
    /\ UNCHANGED <<busVars, kw, irqAttached, envVars, ghostVars>>

\* line 77
init_77 ==
    /\ WriteThen("main", "init_77", REG_FIFO_TX_BASE_ADDR, TX_BASE_ADDR,
                 "init_78")
    /\ UNCHANGED restVars

\* line 78
init_78 ==
    /\ WriteThen("main", "init_78", REG_FIFO_RX_BASE_ADDR, RX_BASE_ADDR,
                 "init_79")
    /\ UNCHANGED restVars

\* line 79
init_79 ==
    /\ CallLine("main", "init_79", "init_end", Frame("standby_125", 0, 0, NoArgs))

\* __init__ returns: the object exists
init_end ==
    /\ At("main", "init_end")
    /\ self' = [self EXCEPT !.constructed = "ready"]
    /\ Return("main", 0)
    /\ UNCHANGED <<busVars, kw, irqAttached, envVars, ghostVars>>

(***************************************************************************)
(* The client: the code that constructs the driver and calls its methods   *)
(* from the main context, one call at a time.                              *)
(***************************************************************************)
\* the keyword arguments of the program's own constructor call (lines
\* 285-293) with the defaults of lines 62-76 for the rest; frequencies in Hz
KwMain ==
    [rx |-> 1, frequency |-> 868000000, bandwidth |-> 250000,
     spreading_factor |-> 10, coding_rate |-> 5, preamble_length |-> 4,
     crc |-> 0, tx_power |-> 24, implicit |-> 0, sync_word |-> 18,
     on_recv |-> 0]

\* lines 55-58: LoRa(spi, **k)
LoRa_init(K) ==
    \E k \in K :
        /\ self.constructed = "none"
        /\ self' = [self EXCEPT !.constructed = "init", !.rx = k.rx]
        /\ kw' = k
        /\ stk' = [stk EXCEPT !["main"] = <<Frame("init_59", 0, 0, NoArgs)>>]
        /\ result' = "running"
        /\ wlog' = <<>>
        /\ call' = [name |-> "__init__", x |-> 0, y |-> 0, b |-> NoArgs]
        /\ pre' = chip
        /\ hist' = [hist EXCEPT !.bw = k.bandwidth, !.cr = k.coding_rate,
                                !.sf = k.spreading_factor, !.crc = k.crc]
        /\ UNCHANGED <<chip, ph, resp, ret, irqAttached, envVars, cbLog, snap,
                       calls, listening, grain, budget>>

\* the methods that write the operating mode
ModeMethods == {"sleep", "standby", "begin_packet", "end_packet", "send",
                "recv"}

\* the record of the calls after a call of method name with first argument
\* x; a spreading factor is kept when set_spreading_factor accepts it
Noted(h, name, x) ==
    CASE name = "on_recv" -> [h EXCEPT !.subs = Append(@, x)]
      [] name = "set_bandwidth" -> [h EXCEPT !.bw = x]
      [] name = "set_coding_rate" -> [h EXCEPT !.cr = x]
      [] name = "set_crc" -> [h EXCEPT !.crc = x]
      [] name = "set_spreading_factor" /\ x >= 6 /\ x <= 12 ->
             [h EXCEPT !.sf = x]
      [] OTHER -> h

\* the client calls method name, whose first statement is frame f
Enter(name, f) ==
    /\ self.constructed = "ready"
    /\ stk["main"] = <<>>
    /\ stk["irq"] = <<>>
    /\ calls < budget
    /\ stk' = [stk EXCEPT !["main"] = <<f>>]
    /\ calls' = calls + 1
    /\ result' = "running"
    /\ wlog' = <<>>
    /\ call' = [name |-> name, x |-> f.x, y |-> f.y, b |-> f.b]
    /\ pre' = chip
    /\ listening' = (listening /\ name \notin ModeMethods)
    /\ hist' = [Noted(hist, name, f.x) EXCEPT !.was = self._implicit]
    /\ UNCHANGED <<chip, ph, resp, ret, objVars, envVars, cbLog, snap, grain,
                   budget>>

send(P) ==
    \E b \in P : /\ Enter("send", Frame("send_106", 0, 0, b))
begin_packet ==
    /\ Enter("begin_packet", Frame("begin_packet_82", 0, 0, NoArgs))
write_packet(P) ==
    \E b \in P :
        /\ Enter("write_packet", Frame("write_packet_94", 0, 0, b))
end_packet ==
    /\ Enter("end_packet", Frame("end_packet_87", 0, 0, NoArgs))
get_rssi ==
    /\ Enter("get_rssi", Frame("get_rssi_116", 0, 0, NoArgs))
get_snr ==
    /\ Enter("get_snr", Frame("get_snr_122", 0, 0, NoArgs))
standby ==
    /\ Enter("standby", Frame("standby_125", 0, 0, NoArgs))
sleep ==
    /\ Enter("sleep", Frame("sleep_128", 0, 0, NoArgs))
recv ==
    /\ Enter("recv", Frame("recv_206", 0, 0, NoArgs))
set_tx_power(L, Pins) ==
    \E level \in L, pin \in Pins :
        /\ Enter("set_tx_power", Frame("set_tx_power_131", level, pin, NoArgs))
set_frequency(F) ==
    \E hz \in F :
        /\ Enter("set_frequency", Frame("set_frequency_139", hz, 0, NoArgs))
set_spreading_factor(S) ==
    \E sf \in S :
        /\ Enter("set_spreading_factor",
              Frame("set_spreading_factor_147", sf, 0, NoArgs))
set_bandwidth(B) ==
    \E bw \in B :
        /\ Enter("set_bandwidth", Frame("set_bandwidth_155", bw, 0, NoArgs))
set_coding_rate(D) ==
    \E d \in D :
        /\ Enter("set_coding_rate", Frame("set_coding_rate_168", d, 0, NoArgs))
set_preamble_length(N) ==
    \E n \in N :
        /\ Enter("set_preamble_length",
              Frame("set_preamble_length_172", n, 0, NoArgs))
set_crc(C) ==
    \E c \in C : /\ Enter("set_crc", Frame("set_crc_176", c, 0, NoArgs))
set_sync_word(W) ==
    \E w \in W :
        /\ Enter("set_sync_word", Frame("set_sync_word_184", w, 0, NoArgs))
set_implicit(I) ==
    \E v \in I :
        /\ Enter("set_implicit", Frame("set_implicit_187", v, 0, NoArgs))
on_recv(Cbs) ==
    \E cb \in Cbs :
        /\ Enter("on_recv", Frame("on_recv_197", cb, 0, NoArgs))

(***************************************************************************)
(* The environment: the chip's own events and the dispatch of the handler. *)
(***************************************************************************)
ChipMode(ch) == ch.regs[REG_OP_MODE]

\* the chip finishes a transmission: it raises TxDone and falls back to
\* standby
ChipTxDone ==
    /\ ChipMode(chip) = Or(MODE_LORA, MODE_TX)
    /\ chip' = [chip EXCEPT
                  !.regs[REG_IRQ_FLAGS] = Or(@, IRQ_TX_DONE_MASK),
                  !.regs[REG_OP_MODE] = Or(MODE_LORA, MODE_STDBY)]
    /\ UNCHANGED <<self, kw, stk, ph, resp, ret, irqAttached, irqPending,
                   grain, result, wlog, cbLog, snap, calls, rxCount, listening,
                   call, pre, budget, hist>>

RECURSIVE FifoStore(_, _, _)
\* the buffer with the bytes p stored from address a on, wrapping at 256
FifoStore(f, a, p) ==
    IF p = <<>> THEN f
    ELSE FifoStore(FifoPut(f, a, Head(p)), (a + 1) % 256, Tail(p))

\* In continuous receive mode the chip receives a packet e: it stores the
\* payload e.p at e.a, reports address, length and SNR, raises RxDone (and
\* the CRC error flag when e.crc = 1), and DIO0 rises when RxDone was clear
\* and DIO0 is mapped to it; the edge schedules an attached handler.  No
\* packet completes while a handler runs.
ChipRxDone(E) ==
    \E e \in E :
        /\ ChipMode(chip) = Or(MODE_LORA, MODE_RX_CONTINUOUS)
        /\ rxCount < MaxRx
        /\ stk["irq"] = <<>>
        /\ rxCount' = rxCount + 1
        /\ chip' = [chip EXCEPT
              !.fifo = FifoStore(@, e.a, e.p),
              !.regs[REG_FIFO_RX_CURRENT_ADDR] = e.a,
              !.regs[REG_RX_NB_BYTES] = Len(e.p),
              !.regs[REG_PKT_SNR_VALUE] = e.snr,
              !.regs[REG_PKT_RSSI_VALUE] = e.rssi,
              !.regs[REG_IRQ_FLAGS] =
                  Or(@, IRQ_RX_DONE_MASK + e.crc * IRQ_PAYLOAD_CRC_ERROR_MASK)]
        /\ irqPending' = (irqPending \/
              (/\ irqAttached
               /\ And(chip.regs[REG_IRQ_FLAGS], IRQ_RX_DONE_MASK) = 0
               /\ chip.regs[REG_DIO_MAPPING_1] \div 64 = 0))
        /\ UNCHANGED <<self, kw, stk, ph, resp, ret, irqAttached, grain,
                       result, wlog, cbLog, snap, calls, listening, call, pre,
                       budget, hist>>

\* the scheduled handler starts: _irq_recv(event_source)
IrqDispatch ==
    /\ irqPending
    /\ stk["irq"] = <<>>
    /\ irqPending' = FALSE
    /\ stk' = [stk EXCEPT !["irq"] = <<Frame("irq_recv_209", 0, 0, NoArgs)>>]
    /\ snap' = [chip |-> chip, implicit |-> self._implicit,
                on_recv |-> self._on_recv, f |-> -1, runs |-> snap.runs + 1]
    /\ cbLog' = <<>>
    /\ UNCHANGED <<chip, self, kw, ph, resp, ret, irqAttached, grain, result,
                   wlog, calls, rxCount, listening, call, pre, budget, hist>>

(***************************************************************************)
(* Initial states and specifications.                                      *)
(***************************************************************************)
\* values the identity register may read: the chip's, and three that are not
Versions == {CHIP_VERSION, 0, 19, 255}

InitWith(g, V, n) ==
    /\ \E v \in V : chip = ChipReset(v)
    /\ budget = n
    /\ self = [constructed |-> "none", rx |-> 0, _implicit |-> -1,
               _frequency |-> -1, _bandwidth |-> -1, _on_recv |-> -1]
    /\ kw = KwMain
    /\ stk = [c \in Ctx |-> <<>>]
    /\ ph = [c \in Ctx |-> 0]
    /\ resp = [c \in Ctx |-> 0]
    /\ ret = [c \in Ctx |-> 0]
    /\ irqAttached = FALSE
    /\ irqPending = FALSE
    /\ grain = g
    /\ result = "none"
    /\ wlog = <<>>
    /\ cbLog = <<>>
    /\ snap = [chip |-> ChipReset(CHIP_VERSION), implicit |-> -1,
               on_recv |-> -1, f |-> -1, runs |-> 0]
    /\ calls = 0
    /\ rxCount = 0
    /\ listening = FALSE
    /\ call = [name |-> "none", x |-> 0, y |-> 0, b |-> NoArgs]
    /\ pre = ChipReset(CHIP_VERSION)
    /\ hist = [subs |-> <<>>, bw |-> -1, cr |-> -1, sf |-> -1, crc |-> -1,
               was |-> -1]

Init == InitWith("xfer", {CHIP_VERSION, 0}, MaxCalls)

\* statements of the driver, by the part of it they belong to
ModeLines == standby_125 \/ sleep_128 \/ recv_206
TxLines ==
    \/ begin_packet_82 \/ begin_packet_83 \/ begin_packet_84
    \/ end_packet_87 \/ end_packet_88 \/ end_packet_90
    \/ write_packet_94 \/ write_packet_97 \/ write_packet_100
    \/ write_packet_101
    \/ send_106 \/ send_107 \/ send_108 \/ send_end
LinkLines == get_rssi_116 \/ get_snr_122
CfgLines ==
    \/ set_tx_power_131 \/ set_tx_power_133 \/ set_tx_power_136
    \/ set_frequency_139 \/ set_frequency_142 \/ set_frequency_143
    \/ set_frequency_144
    \/ set_spreading_factor_147 \/ set_spreading_factor_149
    \/ set_spreading_factor_150 \/ set_spreading_factor_151
    \/ set_spreading_factor_152
    \/ set_bandwidth_155 \/ set_bandwidth_162 \/ set_bandwidth_163
    \/ set_coding_rate_168 \/ set_coding_rate_169
    \/ set_preamble_length_172 \/ set_preamble_length_173
    \/ set_crc_176 \/ set_crc_181
    \/ set_sync_word_184
    \/ set_implicit_187 \/ set_implicit_189 \/ set_implicit_194
SubscribeLines == on_recv_197 \/ on_recv_200 \/ on_recv_201 \/ on_recv_203
HandlerLines ==
    \/ irq_recv_209 \/ get_irq_flags_111 \/ get_irq_flags_112
    \/ irq_recv_210 \/ irq_recv_212
    \/ read_payload_215 \/ read_payload_215w \/ read_payload_217
    \/ read_payload_219 \/ read_payload_222 \/ read_payload_224
InitLines ==
    \/ init_59 \/ init_61 \/ init_62 \/ init_63 \/ init_64 \/ init_65
    \/ init_66 \/ init_67 \/ init_69 \/ init_69w \/ init_71 \/ init_72
    \/ init_73 \/ init_74 \/ init_75 \/ init_76 \/ init_77 \/ init_78
    \/ init_79 \/ init_end
Driver ==
    \/ ModeLines \/ TxLines \/ LinkLines \/ CfgLines \/ SubscribeLines
    \/ HandlerLines \/ InitLines

\* packets the chip may receive
RxEvents ==
    { [a |-> 0, p |-> <<17, 34>>, crc |-> 0, snr |-> 40, rssi |-> 100],
      [a |-> 0, p |-> <<17, 34>>, crc |-> 1, snr |-> 40, rssi |-> 100],
      [a |-> 254, p |-> <<51, 68, 85>>, crc |-> 0, snr |-> 216, rssi |-> 100] }

Environment == ChipTxDone \/ ChipRxDone(RxEvents) \/ IrqDispatch

\* the whole driver under a client that may call every method
Kws == {KwMain, [KwMain EXCEPT !.implicit = 1, !.crc = 1]}

Client ==
    \/ LoRa_init(Kws)
    \/ send({<<66, 67>>})
    \/ begin_packet
    \/ write_packet({<<65>>})
    \/ end_packet
    \/ get_rssi
    \/ get_snr
    \/ standby
    \/ sleep
    \/ recv
    \/ set_tx_power({10}, {PA_OUTPUT_RFO_PIN})
    \/ set_frequency({433000000})
    \/ set_spreading_factor({6, 13})
    \/ set_bandwidth({100000})
    \/ set_coding_rate({7})
    \/ set_preamble_length({8})
    \/ set_crc({1})
    \/ set_sync_word({52})
    \/ set_implicit({0, 1})
    \/ on_recv({0, 1})

Next == Client \/ Driver \/ Environment

Spec == Init /\ [][Next]_vars

(***************************************************************************)
(* Scenarios: the same driver under clients that exercise one part of it.  *)
(***************************************************************************)
\* the statements a construction with the program's own arguments runs
ConstructLines ==
    \/ InitLines \/ sleep_128 \/ standby_125
    \/ set_frequency_139 \/ set_frequency_142 \/ set_frequency_143
    \/ set_frequency_144
    \/ set_bandwidth_155 \/ set_bandwidth_162 \/ set_bandwidth_163
    \/ set_spreading_factor_147 \/ set_spreading_factor_149
    \/ set_spreading_factor_150 \/ set_spreading_factor_151
    \/ set_spreading_factor_152
    \/ set_coding_rate_168 \/ set_coding_rate_169
    \/ set_preamble_length_172 \/ set_preamble_length_173
    \/ set_crc_176 \/ set_crc_181
    \/ set_tx_power_131 \/ set_tx_power_136
    \/ set_implicit_187 \/ set_sync_word_184

\* a payload of n bytes: 1, 2, ..., taken modulo 256
Fill(n) == [k \in 1 .. n |-> k % 256]

\* The transmitter: payloads at the capacity of the buffer.
\* calls the transmitter's client makes
MaxTxCalls == 2
WritePayloads == {<<65>>, Fill(MAX_PKT_LENGTH - 1), Fill(MAX_PKT_LENGTH)}
SendPayloads == {<<66, 67>>, Fill(MAX_PKT_LENGTH), Fill(MAX_PKT_LENGTH + 1)}

InitTx == InitWith("xfer", {CHIP_VERSION}, MaxTxCalls)

NextTx ==
    \/ LoRa_init({KwMain})
    \/ ConstructLines
    \/ begin_packet
    \/ write_packet(WritePayloads)
    \/ end_packet
    \/ send(SendPayloads)
    \/ TxLines
    \/ ChipTxDone

SpecTx == InitTx /\ [][NextTx]_vars

\* The constructor alone: every identity value, and arguments that make it
\* take each of its paths.
KwsInit ==
    { KwMain,
      [KwMain EXCEPT !.implicit = 1, !.crc = 1, !.on_recv = 1],
      [KwMain EXCEPT !.spreading_factor = 6, !.frequency = 433000000,
                     !.bandwidth = 100000, !.coding_rate = 8,
                     !.tx_power = 10, !.sync_word = 52,
                     !.preamble_length = 8, !.rx = 0],
      [KwMain EXCEPT !.spreading_factor = 13] }

InitInit == InitWith("xfer", Versions, 0)

NextInit == LoRa_init(KwsInit) \/ ConstructLines

SpecInit == InitInit /\ [][NextInit]_vars

\* The spreading factor: every argument around the valid range.
\* calls the client of the setters makes
MaxCfgCalls == 2
SfArgs == -1 .. 14

InitCfg == InitWith("xfer", {CHIP_VERSION}, MaxCfgCalls)

\* bandwidths at and around the entries of the table, coding-rate
\* denominators around 5..8, frequencies in Hz up to and beyond 2^24 steps
BwArgs == {0, 7800, 7801, 20000, 62500, 100000, 125000, 125001, 250000,
           250001, 500000}
CrArgs == 4 .. 9
FreqArgs == {137000000, 433000000, 868123457, 915000000, 1020000000,
             1024000000}

NextCfg ==
    \/ LoRa_init(Kws)
    \/ ConstructLines
    \/ set_spreading_factor(SfArgs)
    \/ set_crc({0, 1})
    \/ set_implicit({0, 1})
    \/ set_bandwidth(BwArgs)
    \/ set_coding_rate(CrArgs)
    \/ set_frequency(FreqArgs)
    \/ set_implicit_189 \/ set_implicit_194

SpecCfg == InitCfg /\ [][NextCfg]_vars

\* The subscription: callbacks subscribed, replaced and removed around
\* receptions.
\* calls the subscriber makes
MaxSubCalls == 3

InitSub == InitWith("xfer", {CHIP_VERSION}, MaxSubCalls)

NextSub ==
    \/ LoRa_init(Kws)
    \/ ConstructLines
    \/ on_recv({0, 1, 2})
    \/ recv
    \/ SubscribeLines \/ recv_206
    \/ HandlerLines
    \/ ChipRxDone(RxEvents) \/ IrqDispatch

SpecSub == InitSub /\ [][NextSub]_vars

\* The bus: the handler may be dispatched between any two statements of
\* _transfer.
\* calls the client of the bus scenario makes
MaxBusCalls == 3

InitBus == InitWith("stmt", {CHIP_VERSION}, MaxBusCalls)

NextBus ==
    \/ LoRa_init(Kws)
    \/ ConstructLines
    \/ on_recv({0, 1})
    \/ recv
    \/ get_snr
    \/ SubscribeLines \/ recv_206 \/ get_snr_122
    \/ HandlerLines
    \/ ChipRxDone(RxEvents) \/ IrqDispatch

SpecBus == InitBus /\ [][NextBus]_vars

\* a client that subscribes a callback, receives and sends: the handler of a
\* reception signalled before the send runs between the transactions of send
MaxIrqCalls == 3

InitIrq == InitWith("xfer", {CHIP_VERSION}, MaxIrqCalls)

NextIrq ==
    \/ LoRa_init(Kws)
    \/ ConstructLines
    \/ on_recv({1})
    \/ on_recv_197 \/ on_recv_200 \/ on_recv_201
    \/ recv
    \/ send({<<66, 67>>})
    \/ recv_206
    \/ begin_packet_82 \/ begin_packet_83 \/ begin_packet_84
    \/ write_packet_94 \/ write_packet_97 \/ write_packet_100
    \/ write_packet_101
    \/ end_packet_87 \/ end_packet_88 \/ end_packet_90
    \/ send_106 \/ send_107 \/ send_108 \/ send_end
    \/ HandlerLines
    \/ ChipTxDone
    \/ ChipRxDone(RxEvents)
    \/ IrqDispatch

\* the statements of send
SendSteps ==
    \/ standby_125
    \/ begin_packet_82 \/ begin_packet_83 \/ begin_packet_84
    \/ write_packet_94 \/ write_packet_97 \/ write_packet_100
    \/ write_packet_101
    \/ end_packet_87 \/ end_packet_88 \/ end_packet_90
    \/ send_106 \/ send_107 \/ send_108 \/ send_end

\* what every step of the driver or of the chip changes: the chip or a call
\* stack
progress == <<chip, stk>>

\* the interpreter keeps running the statement it is at, a scheduled handler
\* is dispatched and runs to its end, and a transmission started ends
SpecIrq ==
    /\ InitIrq
    /\ [][NextIrq]_vars
    /\ WF_progress(SendSteps)
    /\ WF_progress(IrqDispatch \/ HandlerLines)
    /\ WF_progress(ChipTxDone)

(***************************************************************************)
(* Properties.  wlog holds the writes of the client's current call, pre    *)
(* the chip as the call began, result its outcome.                         *)
(***************************************************************************)
PayloadLen(ch) == ch.regs[REG_PAYLOAD_LENGTH]

\* the entries of a write log that address register a
WritesTo(log, a) == SelectSeq(log, LAMBDA e : e[2] = a)

\* the writes write_packet(b) issues when it accepts b with n bytes held
PacketWrites(n, b) ==
    [k \in 1 .. Len(b) |-> <<"main", REG_FIFO, b[k]>>]
        \o << <<"main", REG_PAYLOAD_LENGTH, n + Len(b)>> >>

\* C1: write_packet(b), called with n in the payload-length register,
\* succeeds if and only if n + len(b) <= 255 - TX_BASE_ADDR; a call that does
\* not fit raises ValueError and at no point writes anything, so buffer and
\* length are as earlier calls left them; a call that fits writes the bytes
\* of b in order and then the new length.  send succeeds with a payload of
\* 255 - TX_BASE_ADDR bytes or fewer and raises with more, having written
\* nothing to the buffer register.
C1_WritePacketSize ==
    /\ call.name = "write_packet" =>
         LET n    == PayloadLen(pre)
             fits == n + Len(call.b) <= 255 - TX_BASE_ADDR
         IN  /\ result \in {"running", "ok", "ValueError"}
             /\ result = "ok" => fits
             /\ result = "ValueError" => ~fits
             /\ ~fits => /\ wlog = <<>>
                         /\ chip.fifo = pre.fifo
                         /\ PayloadLen(chip) = n
             /\ result = "ok" => /\ wlog = PacketWrites(n, call.b)
                                 /\ PayloadLen(chip) = n + Len(call.b)
    /\ call.name = "send" =>
         LET fits == Len(call.b) <= 255 - TX_BASE_ADDR
         IN  /\ result \in {"running", "ok", "ValueError"}
             /\ result = "ok" => fits
             /\ result = "ValueError" => ~fits
             /\ ~fits => WritesTo(wlog, REG_FIFO) = <<>>

\* a write_packet call was rejected after an earlier one had appended a byte
C1_Witness ==
    /\ call.name = "write_packet"
    /\ result = "ValueError"
    /\ PayloadLen(pre) = 2
    /\ Len(call.b) = 254

\* C2: a send call rejected for its size has written no register: operating
\* mode, buffer pointer, payload length and buffer are as before the call.
C2_RejectedSendWritesNothing ==
    (call.name = "send" /\ result = "ValueError") =>
        /\ wlog = <<>>
        /\ chip.regs[REG_OP_MODE] = pre.regs[REG_OP_MODE]
        /\ chip.regs[REG_FIFO_ADDR_PTR] = pre.regs[REG_FIFO_ADDR_PTR]
        /\ PayloadLen(chip) = PayloadLen(pre)
        /\ chip.fifo = pre.fifo

\* a send of one byte more than the buffer holds was rejected
C2_Witness ==
    /\ call.name = "send"
    /\ result = "ValueError"
    /\ Len(call.b) = 256 - TX_BASE_ADDR

\* the n bytes of the buffer from the current-receive address on, in order
RxWindow(ch, n) ==
    [k \in 1 .. n |->
        FifoAt(ch, (ch.regs[REG_FIFO_RX_CURRENT_ADDR] + k - 1) % 256)]

\* the length register the handler goes by
RxLength(ch, implicit) ==
    IF implicit # 0 THEN ch.regs[REG_PAYLOAD_LENGTH]
                    ELSE ch.regs[REG_RX_NB_BYTES]

\* C3: for a handler run dispatched with a callback subscribed, once it has
\* returned: if the flags it read have the payload-CRC-error bit (0x20) the
\* callback was not invoked, else it was invoked exactly once, with the n
\* bytes of the buffer from the current-receive address on, n being the
\* payload-length register when the cached implicit flag is set and the
\* received-byte count otherwise; and no step of the handler changes the
\* outcome of the client's call (no error is raised).
C3_HandlerCallback ==
    /\ [](snap.runs > 0 /\ snap.on_recv # 0 =>
            /\ Len(cbLog) <= 1
            /\ stk["irq"] = <<>> =>
                 /\ snap.f \in Byte
                 /\ And(snap.f, 32) # 0 => cbLog = <<>>
                 /\ And(snap.f, 32) = 0 =>
                      cbLog = << [cb |-> snap.on_recv,
                                  payload |-> RxWindow(snap.chip,
                                      RxLength(snap.chip, snap.implicit))] >>)
    /\ [][stk["irq"] # <<>> => result' = result]_vars

\* a handler run with a clean CRC and the implicit flag cached has returned
\* after it invoked the callback
C3_Witness ==
    /\ snap.runs > 0
    /\ stk["irq"] = <<>>
    /\ snap.on_recv # 0
    /\ snap.implicit # 0
    /\ And(snap.f, 32) = 0
    /\ Len(cbLog) = 1
    /\ Len(cbLog[1].payload) = 1

\* C4: set_spreading_factor(sf) with sf outside 6..12 raises ValueError and
\* at no point writes a register: the detection registers 0x31 and 0x37 and
\* modem-config-2 are as before the call.  With sf in 6..12 it succeeds, and
\* its first two writes are 0xC5 to 0x31 and 0x0C to 0x37 when sf = 6, 0xC3
\* and 0x0A otherwise, which the registers then hold.
C4_SpreadingFactorRange ==
    call.name = "set_spreading_factor" =>
        LET sf == call.x
        IN  IF sf < 6 \/ sf > 12
              THEN /\ result \in {"running", "ValueError"}
                   /\ wlog = <<>>
                   /\ \A a \in {49, 55, REG_MODEM_CONFIG_2} :
                          chip.regs[a] = pre.regs[a]
              ELSE /\ result \in {"running", "ok"}
                   /\ result = "ok" =>
                        /\ Len(wlog) = 3
                        /\ wlog[1] = <<"main", 49, IF sf = 6 THEN 197 ELSE 195>>
                        /\ wlog[2] = <<"main", 55, IF sf = 6 THEN 12 ELSE 10>>
                        /\ wlog[3][2] = REG_MODEM_CONFIG_2
                        /\ chip.regs[49] = (IF sf = 6 THEN 197 ELSE 195)
                        /\ chip.regs[55] = (IF sf = 6 THEN 12 ELSE 10)

\* set_spreading_factor(13) was rejected on a chip that an earlier
\* set_spreading_factor(6) had configured
C4_Witness ==
    /\ call.name = "set_spreading_factor"
    /\ call.x = 13
    /\ result = "ValueError"
    /\ pre.regs[REG_DETECTION_OPTIMIZE] = 197
    /\ pre.regs[REG_DETECTION_THRESHOLD] = 12

\* the writes of a send of payload b that nothing interrupts: begin_packet,
\* write_packet, end_packet
SendWrites(b) ==
    << <<"main", REG_OP_MODE, 129>>,
       <<"main", REG_FIFO_ADDR_PTR, TX_BASE_ADDR>>,
       <<"main", REG_PAYLOAD_LENGTH, 0>> >>
    \o [k \in 1 .. Len(b) |-> <<"main", REG_FIFO, b[k]>>]
    \o << <<"main", REG_PAYLOAD_LENGTH, Len(b)>>,
          <<"main", REG_OP_MODE, 131>>,
          <<"main", REG_IRQ_FLAGS, 8>> >>

IsPrefix(s, t) == Len(s) <= Len(t) /\ s = SubSeq(t, 1, Len(s))

\* C5: with no interrupt, a send of a payload that fits writes, in this order
\* and nothing else: mode := Standby (0x81), buffer pointer := TX base,
\* payload length := 0, the bytes of the payload in order to the buffer
\* register, payload length := len(payload), mode := Transmit (0x83), and
\* last the TxDone mask to the IRQ flags.  At every point of the call the
\* writes so far are a prefix of that sequence, so every buffer write follows
\* the Standby write and Transmit follows the bytes and the final length.
C5_SendWriteOrder ==
    (call.name = "send" /\ Len(call.b) <= 255 - TX_BASE_ADDR) =>
        /\ IsPrefix(wlog, SendWrites(call.b))
        /\ result = "ok" => wlog = SendWrites(call.b)

\* a send of a full buffer has returned
C5_Witness ==
    /\ call.name = "send"
    /\ result = "ok"
    /\ Len(call.b) = 255 - TX_BASE_ADDR
    /\ Len(WritesTo(wlog, REG_FIFO)) = 255 - TX_BASE_ADDR

\* the entries of a write log that main wrote
MainWrites(log) == SelectSeq(log, LAMBDA e : e[1] = "main")

\* main is at one of the statements ls
InEndPacket(ls) == stk["main"] # <<>> /\ Head(stk["main"]).pc \in ls

\* C6: end_packet leaves its poll loop only with a flags value it read itself
\* that has TxDone (0x08), read after its write of mode Transmit; the write
\* that follows gives the chip exactly the TxDone mask, so it clears that
\* flag and no other, and it is main's last write of the call; the call does
\* not raise; and while the chip's TxDone flag is clear, a step leaves
\* end_packet in its poll loop (it neither returns nor raises).
C6_EndPacketPoll ==
    /\ [](/\ InEndPacket({"end_packet_88", "end_packet_90"}) =>
               /\ wlog # <<>>
               /\ \E k \in 1 .. Len(wlog) :
                      /\ wlog[k] = <<"main", REG_OP_MODE, 131>>
                      /\ \A j \in k + 1 .. Len(wlog) : wlog[j][1] = "irq"
          /\ InEndPacket({"end_packet_90"}) =>
               And(Head(stk["main"]).n, 8) = 8
          /\ InEndPacket({"end_packet_87", "end_packet_88", "end_packet_90"})
               => result = "running"
          /\ (call.name = "end_packet" /\ result # "running") =>
               /\ result = "ok"
               /\ LET m == MainWrites(wlog)
                  IN  m[Len(m)] = <<"main", REG_IRQ_FLAGS, 8>>)
    /\ [][/\ (InEndPacket({"end_packet_90"}) /\ stk'["main"] # stk["main"]) =>
               chip'.regs[REG_IRQ_FLAGS] =
                   chip.regs[REG_IRQ_FLAGS] - And(chip.regs[REG_IRQ_FLAGS], 8)
          /\ (InEndPacket({"end_packet_88"})
                /\ And(chip.regs[REG_IRQ_FLAGS], 8) = 0) =>
               /\ stk'["main"] # <<>>
               /\ Head(stk'["main"]).pc = "end_packet_88"
               /\ result' = result]_vars

\* end_packet has returned on a chip that also held the RxDone flag: TxDone
\* is cleared, RxDone is still set
C6_Witness ==
    /\ call.name = "end_packet"
    /\ result = "ok"
    /\ pre.regs[REG_IRQ_FLAGS] = 64
    /\ chip.regs[REG_IRQ_FLAGS] = 64

\* the contexts that are between chip-select assert and chip-select release
OnBus == {c \in Ctx : ph[c] # 0}

\* C7: at most one context is between chip-select assert and release, and
\* the handler is in no transaction of its own while main has sent an
\* address byte and not yet exchanged the data byte.
C7_BusNotInterleaved ==
    /\ Cardinality(OnBus) <= 1
    /\ ph["main"] = 2 => ph["irq"] = 0

\* the handler has asserted chip select for its read of the IRQ flags while
\* main's transaction waits between its address byte and its data byte
C7_Witness ==
    /\ ph["main"] = 2
    /\ ph["irq"] = 1
    /\ stk["irq"] # <<>>
    /\ Head(stk["irq"]).pc = "get_irq_flags_111"

\* C8: once recv() has returned, and until the client calls sleep, standby,
\* begin_packet, end_packet, send or recv again, the operating-mode register
\* holds LoRa|ReceiveContinuous (0x85), whatever interrupts are handled and
\* whatever other methods are called; and every write to the operating-mode
\* register is made by the main context within a call of one of those
\* methods or of the constructor.
C8_ReceiveModeStays ==
    /\ listening => chip.regs[REG_OP_MODE] = 133
    /\ \A k \in 1 .. Len(wlog) :
           wlog[k][2] = REG_OP_MODE =>
               /\ wlog[k][1] = "main"
               /\ call.name \in {"sleep", "standby", "begin_packet",
                                 "end_packet", "send", "recv", "__init__"}

\* after recv() an interrupt with a clean CRC was handled to its end and the
\* chip is still receiving
C8_Witness ==
    /\ listening
    /\ snap.runs = 1
    /\ stk["irq"] = <<>>
    /\ Len(cbLog) = 1
    /\ chip.regs[REG_OP_MODE] = 133

\* the registers a construction configures
ConfigRegs ==
    {REG_FRF_MSB, REG_FRF_MID, REG_FRF_LSB, REG_MODEM_CONFIG_1,
     REG_MODEM_CONFIG_2, REG_DETECTION_OPTIMIZE, REG_DETECTION_THRESHOLD,
     REG_PREAMBLE_MSB, REG_PREAMBLE_LSB, REG_LNA, REG_MODEM_CONFIG_3,
     REG_PA_CONFIG, REG_SYNC_WORD, REG_FIFO_TX_BASE_ADDR,
     REG_FIFO_RX_BASE_ADDR}

\* C9: in a construction, the first write is mode := Sleep (0x80); no later
\* write addresses the mode register except the last one of a successful
\* construction, which is mode := Standby (0x81); so every configuration
\* write is made with Sleep the last written mode.  A successful
\* construction has written every configuration register and leaves the
\* chip in Standby.
C9_ConstructionOrder ==
    call.name = "__init__" =>
        /\ wlog # <<>> => wlog[1] = <<"main", REG_OP_MODE, 128>>
        /\ \A k \in 2 .. Len(wlog) :
               IF wlog[k][2] = REG_OP_MODE
                 THEN /\ k = Len(wlog)
                      /\ wlog[k] = <<"main", REG_OP_MODE, 129>>
                      /\ \/ result = "ok"
                         \/ InEndPacket({"init_end"})
                 ELSE /\ wlog[k][1] = "main"
                      /\ wlog[k][2] \in ConfigRegs
        /\ result = "ok" =>
             /\ wlog[Len(wlog)] = <<"main", REG_OP_MODE, 129>>
             /\ {wlog[k][2] : k \in 2 .. Len(wlog) - 1} = ConfigRegs
             /\ chip.regs[REG_OP_MODE] = 129
             /\ self.constructed = "ready"

\* a construction with spreading factor 6 has succeeded
C9_Witness ==
    /\ call.name = "__init__"
    /\ result = "ok"
    /\ kw.spreading_factor = 6
    /\ chip.regs[REG_DETECTION_OPTIMIZE] = 197

\* C10: on a chip whose identity register does not read 0x12, no write is
\* ever issued and every register keeps its reset value; the constructor
\* raises, from its first statement, whose transfer is the read of the
\* identity register and the first transfer of the call; no object results.
C10_BadIdentity ==
    /\ [](chip.regs[REG_VERSION] # 18 =>
            /\ wlog = <<>>
            /\ chip.regs = ChipReset(chip.regs[REG_VERSION]).regs
            /\ chip.fifo = <<>>
            /\ self.constructed \in {"none", "init", "failed"}
            /\ result \in {"none", "running", "Exception"}
            /\ (call.name = "__init__" /\ stk["main"] = <<>>) =>
                 /\ result = "Exception"
                 /\ self.constructed = "failed")
    /\ [][result' = "Exception" /\ result # "Exception" =>
            /\ stk["main"] = <<Frame("init_59", 0, 0, <<>>)>>
            /\ chip = pre
            /\ resp'["main"] = chip.regs[REG_VERSION]
            /\ resp'["main"] # 18
            /\ chip'.regs = chip.regs]_vars

\* a construction on a chip that identifies as 0x13 has failed
C10_Witness ==
    /\ call.name = "__init__"
    /\ result = "Exception"
    /\ self.constructed = "failed"
    /\ chip.regs[REG_VERSION] = 19

\* C11: set_implicit(v) called with the cached flag equal to v writes
\* nothing; called with the cached flag different from v it issues exactly
\* one write, to modem-config-1, of the register's value with bit 0 set to v
\* and every other bit as it was; either way the cached flag is v afterwards,
\* so a second set_implicit(v) in a row writes nothing.
C11_SetImplicitWrites ==
    call.name = "set_implicit" =>
        /\ result \in {"running", "ok"}
        /\ IF call.x = hist.was
             THEN wlog = <<>>
             ELSE /\ Len(wlog) <= 1
                  /\ result = "ok" =>
                       wlog = << <<"main", REG_MODEM_CONFIG_1,
                                   pre.regs[REG_MODEM_CONFIG_1]
                                     - (pre.regs[REG_MODEM_CONFIG_1] % 2)
                                     + call.x>> >>
        /\ result = "ok" => self._implicit = call.x

\* the second of two set_implicit(True) calls in a row has returned without
\* a write
C11_Witness ==
    /\ call.name = "set_implicit"
    /\ call.x = 1
    /\ kw.implicit = 0
    /\ calls = 2
    /\ hist.was = 1
    /\ result = "ok"
    /\ wlog = <<>>

\* the callback of the most recent on_recv call that has made its assignment
\* (line 197); before any, the constructor's on_recv option
Subscribed ==
    LET n == IF InEndPacket({"on_recv_197"}) THEN Len(hist.subs) - 1
                                             ELSE Len(hist.subs)
    IN  IF n = 0 THEN kw.on_recv ELSE hist.subs[n]

\* C12: every invocation of a callback by the handler invokes the callback of
\* the most recent on_recv call, and none is invoked when that call was
\* on_recv(None).
C12_SingleSlot ==
    [][(cbLog' # cbLog /\ cbLog' # <<>>) =>
           /\ cbLog'[Len(cbLog')].cb = Subscribed
           /\ Subscribed # 0]_vars

\* after on_recv(1) and then on_recv(2) a handler run has invoked callback 2
\* and no other
C12_Witness ==
    /\ hist.subs = <<1, 2>>
    /\ stk["irq"] = <<>>
    /\ snap.runs = 1
    /\ Len(cbLog) = 1
    /\ cbLog[1].cb = 2

\* C13: with an interrupt line, on_recv(cb) has written the mapping register
\* 0x40 := 0 (packet received on DIO0) and the handler is attached when it
\* returns; on_recv(None) has detached the handler and has issued a write to
\* register 0x40.
C13_SubscriptionWrites ==
    (call.name = "on_recv" /\ result = "ok" /\ self.rx # 0) =>
        IF call.x # 0
          THEN /\ irqAttached
               /\ MainWrites(wlog) = << <<"main", 64, 0>> >>
          ELSE /\ ~irqAttached
               /\ WritesTo(MainWrites(wlog), 64) # <<>>

\* on_recv(None) has returned after an earlier on_recv(1): the handler is
\* detached and the call has written nothing
C13_Witness ==
    /\ call.name = "on_recv"
    /\ call.x = 0
    /\ result = "ok"
    /\ hist.subs = <<1, 0>>
    /\ ~irqAttached
    /\ MainWrites(wlog) = <<>>

\* the number of bandwidth table entries smaller than bw: the position,
\* counted from 0, of the first entry >= bw, and 9 when there is none
SmallerEntries(bw) == Cardinality({j \in 1 .. Len(bws) : bws[j] < bw})

\* C14: set_bandwidth(bw) writes to modem-config-1 the index of the first
\* table entry >= bw (9 when bw exceeds every entry, so 100000 gives 7) in the
\* high nibble and leaves the low nibble as it was.
C14_BandwidthIndex ==
    (call.name = "set_bandwidth" /\ result = "ok") =>
        /\ wlog = << <<"main", REG_MODEM_CONFIG_1,
                       (pre.regs[REG_MODEM_CONFIG_1] % 16)
                         + 16 * SmallerEntries(call.x)>> >>
        /\ call.x = 100000 => chip.regs[REG_MODEM_CONFIG_1] \div 16 = 7
        /\ call.x > 250000 => chip.regs[REG_MODEM_CONFIG_1] \div 16 = 9
        /\ chip.regs[REG_MODEM_CONFIG_1] % 16 = pre.regs[REG_MODEM_CONFIG_1] % 16
        /\ self._bandwidth = call.x

\* set_bandwidth(250000), equal to the last table entry, has returned after
\* set_implicit(1) set bit 0: index 8 is written and the low nibble is kept
C14_Witness ==
    /\ call.name = "set_bandwidth"
    /\ call.x = 250000
    /\ result = "ok"
    /\ calls = 2
    /\ pre.regs[REG_MODEM_CONFIG_1] % 2 = 1
    /\ chip.regs[REG_MODEM_CONFIG_1] \div 16 = 8
    /\ chip.regs[REG_MODEM_CONFIG_1] % 2 = 1

\* a byte read as a two's-complement signed value
SignedByte(b) == IF b < 128 THEN b ELSE b - 256

\* C15: get_snr returns the packet-SNR register, read as a signed byte, times
\* 0.25 dB (the result is held in quarters of a dB): the byte 0xD8 gives
\* -40 quarters, -10.0 dB.
C15_SnrSigned ==
    (/\ call.name = "get_snr"
     /\ result = "ok"
     /\ chip.regs[REG_PKT_SNR_VALUE] = pre.regs[REG_PKT_SNR_VALUE]) =>
        ret["main"] = SignedByte(chip.regs[REG_PKT_SNR_VALUE])

\* get_snr has returned with the register holding 0xD8: the result is 216
\* quarters, 54.0 dB
C15_Witness ==
    /\ call.name = "get_snr"
    /\ result = "ok"
    /\ pre.regs[REG_PKT_SNR_VALUE] = 216
    /\ chip.regs[REG_PKT_SNR_VALUE] = 216
    /\ ret["main"] = 216

\* the 24-bit value held by the three frequency registers
FrfRegs(c) ==
    65536 * c.regs[REG_FRF_MSB] + 256 * c.regs[REG_FRF_MID] + c.regs[REG_FRF_LSB]

\* |x * 32000000 / 2^19 - hz| <= 32000000 / 2^20, i.e. with the step
\* 15625 / 256 Hz, |31250 * x - 512 * hz| <= 15625; with hz = 15625 * q + r
\* this is |31250 * (x - 256 * q) - 512 * r| <= 15625, and x - 256 * q is
\* then between 0 and 256
WithinHalfStep(x, hz) ==
    LET d == x - 256 * (hz \div 15625)
        e == 31250 * d - 512 * (hz % 15625)
    IN  /\ d >= 0
        /\ d <= 256
        /\ e <= 15625
        /\ e >= -15625

\* C16: after set_frequency, the value assembled from the three frequency
\* registers decodes back to the requested frequency within half a step, also
\* for requests whose step count does not fit in 24 bits.
C16_FrequencyRoundTrip ==
    (call.name = "set_frequency" /\ result = "ok") =>
        WithinHalfStep(FrfRegs(chip), call.x)

\* set_frequency(1024.0) has returned: the step count is 2^24 and the three
\* registers hold 0
C16_Witness ==
    /\ call.name = "set_frequency"
    /\ call.x = 1024000000
    /\ result = "ok"
    /\ Len(wlog) = 3
    /\ FrfRegs(chip) = 0

\* C19: after a successful construction, with the option implicit False or
\* True, and any set_implicit, set_bandwidth and set_coding_rate calls, the
\* cached implicit-header flag equals bit 0 of modem-config-1.
C19_ImplicitFlagCached ==
    (/\ self.constructed = "ready"
     /\ stk["main"] = <<>>
     /\ call.name \in {"__init__", "set_implicit", "set_bandwidth",
                       "set_coding_rate"}) =>
        self._implicit = chip.regs[REG_MODEM_CONFIG_1] % 2

\* LoRa(..., implicit=True) has returned: the flag is cached and bit 0 of
\* modem-config-1 is clear
C19_Witness ==
    /\ self.constructed = "ready"
    /\ stk["main"] = <<>>
    /\ call.name = "__init__"
    /\ kw.implicit = 1
    /\ self._implicit = 1
    /\ chip.regs[REG_MODEM_CONFIG_1] % 2 = 0

\* the driver is constructed and no call is in progress
Settled == self.constructed = "ready" /\ stk["main"] = <<>>

\* the fields of the two shared registers, in a constructed driver at rest
SharedFields ==
    Settled =>
        /\ chip.regs[REG_MODEM_CONFIG_1] \div 16 = SmallerEntries(hist.bw)
        /\ (chip.regs[REG_MODEM_CONFIG_1] \div 2) % 8
              = Min(Max(hist.cr, 5), 8) - 4
        /\ chip.regs[REG_MODEM_CONFIG_2] \div 16 = hist.sf
        /\ (chip.regs[REG_MODEM_CONFIG_2] \div 4) % 2 = hist.crc

\* bit 0 of modem-config-1 changes only by a write of set_implicit, and
\* bits 3, 1 and 0 of modem-config-2 never change
SharedFrame ==
    /\ chip'.regs[REG_MODEM_CONFIG_1] % 2 # chip.regs[REG_MODEM_CONFIG_1] % 2
          => InEndPacket({"set_implicit_189", "set_implicit_194"})
    /\ And(chip'.regs[REG_MODEM_CONFIG_2], 11)
          = And(chip.regs[REG_MODEM_CONFIG_2], 11)

\* C20: the setters that share a register leave each other's fields alone:
\* modem-config-1 holds the index of the last set_bandwidth in its high
\* nibble, clamp(denominator, 5, 8) - 4 of the last set_coding_rate in bits
\* 3-1 and bit 0 as last written by set_implicit; modem-config-2 holds the
\* last accepted spreading factor in its high nibble, the last set_crc value
\* in bit 2, and its other bits never change.
C20_SharedRegisters == []SharedFields /\ [][SharedFrame]_vars

\* set_coding_rate(9) has returned after set_implicit(1) set bit 0:
\* bits 3-1 hold 4, bit 0 is still set and the bandwidth index is kept
C20_Witness ==
    /\ Settled
    /\ call.name = "set_coding_rate"
    /\ call.x = 9
    /\ result = "ok"
    /\ calls = 2
    /\ pre.regs[REG_MODEM_CONFIG_1] % 2 = 1
    /\ chip.regs[REG_MODEM_CONFIG_1] % 16 = 9
    /\ chip.regs[REG_MODEM_CONFIG_1] \div 16 = SmallerEntries(kw.bandwidth)

\* C17: a send that has been called returns, also when the subscribed handler
\* runs between iterations of end_packet's poll loop, given that the chip
\* ends the transmission and sets TxDone.
C17_SendReturns ==
    (call.name = "send" /\ result = "running")
        ~> (call.name = "send" /\ result # "running")

\* end_packet polls with the transmission over (the chip is back in standby)
\* and TxDone clear: a handler run has read the flags after the chip set
\* TxDone and has written them back
C17_Witness ==
    /\ call.name = "send"
    /\ result = "running"
    /\ InEndPacket({"end_packet_88"})
    /\ stk["irq"] = <<>>
    /\ ~irqPending
    /\ ChipMode(chip) = Or(MODE_LORA, MODE_STDBY)
    /\ And(chip.regs[REG_IRQ_FLAGS], IRQ_TX_DONE_MASK) = 0
    /\ \E k \in 1 .. Len(wlog) :
           /\ wlog[k][1] = "irq"
           /\ wlog[k][2] = REG_IRQ_FLAGS
           /\ And(wlog[k][3], IRQ_TX_DONE_MASK) # 0

\* the n bytes of the buffer from the transmit base address on
TxWindow(ch, n) ==
    [k \in 1 .. n |->
        FifoAt(ch, (ch.regs[REG_FIFO_TX_BASE_ADDR] + k - 1) % 256)]

\* C18: once send(payload) has written mode Transmit, the buffer holds the
\* bytes of payload from the transmit base address on and the payload-length
\* register holds len(payload), also when the handler runs between the
\* transactions of begin_packet and write_packet.
C18_TransmitsPayload ==
    (call.name = "send"
       /\ InEndPacket({"end_packet_88", "end_packet_90"})) =>
        /\ PayloadLen(chip) = Len(call.b)
        /\ TxWindow(chip, Len(call.b)) = call.b

\* mode Transmit has been written after a handler run inside the send moved
\* the buffer pointer: the buffer at the transmit base address still holds
\* the packet received
C18_Witness ==
    /\ call.name = "send"
    /\ InEndPacket({"end_packet_88"})
    /\ ChipMode(chip) = Or(MODE_LORA, MODE_TX)
    /\ \E k \in 1 .. Len(wlog) :
           wlog[k] = <<"irq", REG_FIFO_ADDR_PTR,
                       chip.regs[REG_FIFO_RX_CURRENT_ADDR]>>
    /\ PayloadLen(chip) = Len(call.b)
    /\ TxWindow(chip, Len(call.b)) # call.b
=============================================================================
